---------------------------- MODULE Spec2Model ----------------------------
(***************************************************************************)
(* Model of term_solver.py: the Flask view solveAPI (POST /solve) and the  *)
(* recursive evaluator solve_term.                                         *)
(*                                                                         *)
(* A Python string is a sequence of one-character strings; indices are     *)
(* shifted by one (term[0] in the source is term[1] here).  solve_term is  *)
(* modelled twice from the same helper operators: as the pure function     *)
(* solve_term(term) and as a call stack that executes it one call, return  *)
(* or raise at a time.  An exception is a record that travels down the     *)
(* stack until solveAPI's except clause (or nothing) catches it.           *)
(***************************************************************************)
EXTENDS Integers, Sequences, FiniteSets, TLC

\* ------------------------------------------------------------------ bounds
\* Longest arbitrary (possibly malformed) term that is tried.
MaxLen == 5
\* Most operands of a well-formed term d(op d)* that is tried.
MaxOperands == 4

\* Characters the tried terms are built from: some digits, the two
\* operators, and one character that is neither.
InputDigits == {"0", "2", "3", "4", "9"}
InputOperators == {"+", "*"}
InputChars == InputDigits \cup InputOperators \cup {"-"}

\* ------------------------------------------------------- Python primitives
Digits == <<"0", "1", "2", "3", "4", "5", "6", "7", "8", "9">>

IsDigit(c) == \E d \in 1..10 : Digits[d] = c

\* int(c) for a one-character string c that is a decimal digit
int(c) == (CHOOSE d \in 1..10 : Digits[d] = c) - 1

RECURSIVE str(_)
\* str(n) for a non-negative int n: its decimal digits
str(n) == IF n < 10 THEN <<Digits[n + 1]>>
          ELSE str(n \div 10) \o <<Digits[(n % 10) + 1]>>

\* What a call or an expression produced: nothing yet, a returned string,
\* or a raised exception with its str() text.
NoOutcome == [kind |-> "none", val |-> <<>>]
Value(v) == [kind |-> "value", val |-> v]
IndexError == [kind |-> "IndexError", val |-> <<"string index out of range">>]
ValueError(c) ==
    [kind |-> "ValueError",
     val |-> <<"invalid literal for int() with base 10: '", c, "'">>]
KeyError == [kind |-> "KeyError", val |-> <<"'term'">>]

IsRaise(o) == o.kind \in {"IndexError", "ValueError", "KeyError"}

\* -------------------------------------------------------------- solve_term
\* Faulty variant of ParseError: the length is tested before any character
\* is parsed.
ParseError_LengthFirst(term) ==
    IF Len(term) < 3 THEN IndexError
    ELSE IF ~IsDigit(term[1]) THEN ValueError(term[1])
    ELSE IF ~IsDigit(term[3]) THEN ValueError(term[3])
    ELSE NoOutcome

\* Lines 25-27 when they raise: int(term[0]), term[1], int(term[2]) are
\* evaluated in this order; NoOutcome when all three succeed.
ParseError(term) ==
    IF Len(term) = 0 THEN IndexError
    ELSE IF ~IsDigit(term[1]) THEN ValueError(term[1])
    ELSE IF Len(term) < 3 THEN IndexError
    ELSE IF ~IsDigit(term[3]) THEN ValueError(term[3])
    ELSE NoOutcome

number(term) == int(term[1])
operator(term) == term[2]
number2(term) == int(term[3])

\* Faulty variant of BaseResult: only "*" multiplies, anything else adds.
BaseResult_OnlyStarMultiplies(term) ==
    IF operator(term) = "*" THEN str(number(term) * number2(term))
    ELSE str(number(term) + number2(term))

\* Faulty variant of BaseResult: "+" concatenates the two digits instead of
\* adding the two numbers.
BaseResult_Concat(term) ==
    IF operator(term) = "+" THEN str(number(term)) \o str(number2(term))
    ELSE str(number(term) * number2(term))

\* Lines 30-34: the value of a 3-character term
BaseResult(term) ==
    IF operator(term) = "+" THEN str(number(term) + number2(term))
    ELSE str(number(term) * number2(term))

\* Line 35: the branch taken by a term longer than 3
IsAddBranch(term) == operator(term) # "*"

\* Line 36: term[2:], the argument of the inner call
InnerTerm(term) == SubSeq(term, 3, Len(term))

\* Faulty variant of OuterTerm: the term's own operator is put back.
OuterTerm_Operator(term, r) ==
    str(number(term)) \o <<operator(term)>> \o r

\* Line 36: str(number) + "+" + str(r), the argument of the outer call
OuterTerm(term, r) == str(number(term)) \o <<"+">> \o r

\* Faulty variant of MulTerm: the two operands are added.
MulTerm_Sum(term) ==
    str(number(term) + number2(term)) \o SubSeq(term, 4, Len(term))

\* Faulty variant of MulTerm: only the last digit of the product is kept.
MulTerm_LastDigit(term) ==
    str((number(term) * number2(term)) % 10) \o SubSeq(term, 4, Len(term))

\* Faulty variant of MulTerm: the rest is taken from term[1:].
MulTerm_KeepTail(term) ==
    str(number(term) * number2(term)) \o SubSeq(term, 2, Len(term))

\* Lines 38-39: str(number * number2) + term[3:]
MulTerm(term) ==
    str(number(term) * number2(term)) \o SubSeq(term, 4, Len(term))

RECURSIVE solve_term(_)
\* Lines 24-39 as a function from the term to its outcome
solve_term(term) ==
    IF ParseError(term) # NoOutcome THEN ParseError(term)
    ELSE IF Len(term) = 3 THEN Value(BaseResult(term))
    ELSE IF IsAddBranch(term)
         THEN LET r == solve_term(InnerTerm(term))
              IN  IF IsRaise(r) THEN r
                  ELSE solve_term(OuterTerm(term, r.val))
    ELSE solve_term(MulTerm(term))

\* ------------------------------------------------------------------ state
VARIABLES
    request,    \* the JSON body of the request: has it a term, and the term
    hpc,        \* where the caller is: "idle", "solving", "direct", "done"
    stack,      \* the active calls of solve_term, the innermost last
    outcome,    \* the value being returned or the exception being raised
    response    \* what solveAPI answered

vars == <<request, hpc, stack, outcome, response>>

\* A call of solve_term: its argument, where it is, and the value the
\* inner call of line 36 gave it.
Frame(term) == [term |-> term, pc |-> "entry", r |-> <<>>]

NoResponse == [status |-> 0, body |-> <<>>]

\* The arbitrary strings of length k that are tried
Strings(k) == [1..k -> InputChars]

\* The well-formed term ds[1] os[1] ds[2] ... os[k] ds[k + 1]
WellFormedTerm(ds, os) ==
    [i \in 1..(2 * Len(os) + 1) |->
        IF i % 2 = 1 THEN ds[(i + 1) \div 2] ELSE os[i \div 2]]

Top == stack[Len(stack)]
Pop == SubSeq(stack, 1, Len(stack) - 1)
Running == hpc \in {"solving", "direct"}

\* ------------------------------------------- solve_term, one step at a time
\* Lines 25-27 raise: the exception leaves the call.
solve_term_Raise ==
    /\ Running /\ stack # <<>> /\ outcome = NoOutcome
    /\ Top.pc = "entry"
    /\ ParseError(Top.term) # NoOutcome
    /\ outcome' = ParseError(Top.term)
    /\ UNCHANGED <<request, hpc, stack, response>>

\* Lines 29-34: a 3-character term returns its sum or product.
solve_term_Base ==
    /\ Running /\ stack # <<>> /\ outcome = NoOutcome
    /\ Top.pc = "entry"
    /\ ParseError(Top.term) = NoOutcome
    /\ Len(Top.term) = 3
    /\ outcome' = Value(BaseResult(Top.term))
    /\ stack' = Pop
    /\ UNCHANGED <<request, hpc, response>>

\* Lines 35-36: a longer term whose operator is not "*" calls
\* solve_term(term[2:]) first.
solve_term_AddInner ==
    /\ Running /\ stack # <<>> /\ outcome = NoOutcome
    /\ Top.pc = "entry"
    /\ ParseError(Top.term) = NoOutcome
    /\ Len(Top.term) # 3
    /\ IsAddBranch(Top.term)
    /\ stack' = Append([stack EXCEPT ![Len(stack)].pc = "add_inner"],
                       Frame(InnerTerm(Top.term)))
    /\ UNCHANGED <<request, hpc, outcome, response>>

\* Line 36: the inner call returned r; call solve_term(str(number)+"+"+r).
solve_term_AddOuter ==
    /\ Running /\ stack # <<>> /\ outcome.kind = "value"
    /\ Top.pc = "add_inner"
    /\ stack' = Append([stack EXCEPT ![Len(stack)].pc = "add_outer",
                                     ![Len(stack)].r = outcome.val],
                       Frame(OuterTerm(Top.term, outcome.val)))
    /\ outcome' = NoOutcome
    /\ UNCHANGED <<request, hpc, response>>

\* Lines 37-39: a longer term whose operator is "*" multiplies and calls
\* solve_term(str(result) + term[3:]).
solve_term_Mul ==
    /\ Running /\ stack # <<>> /\ outcome = NoOutcome
    /\ Top.pc = "entry"
    /\ ParseError(Top.term) = NoOutcome
    /\ Len(Top.term) # 3
    /\ ~IsAddBranch(Top.term)
    /\ stack' = Append([stack EXCEPT ![Len(stack)].pc = "mul"],
                       Frame(MulTerm(Top.term)))
    /\ UNCHANGED <<request, hpc, outcome, response>>

\* Lines 36 and 39: the last call of a branch returned; return its value
\* (str() of a string is the string).
solve_term_Return ==
    /\ Running /\ stack # <<>> /\ outcome.kind = "value"
    /\ Top.pc \in {"add_outer", "mul"}
    /\ stack' = Pop
    /\ UNCHANGED <<request, hpc, outcome, response>>

\* solve_term has no except clause: an exception raised in a call, or in a
\* call it made, leaves the call.
solve_term_Unwind ==
    /\ Running /\ stack # <<>> /\ IsRaise(outcome)
    /\ stack' = Pop
    /\ UNCHANGED <<request, hpc, outcome, response>>

SolveStep ==
    \/ solve_term_Raise
    \/ solve_term_Base
    \/ solve_term_AddInner
    \/ solve_term_AddOuter
    \/ solve_term_Mul
    \/ solve_term_Return
    \/ solve_term_Unwind

\* ---------------------------------------------------------------- solveAPI
\* Line 16
NoTermResponse == [status |-> 400, body |-> <<"No term provided">>]
\* Line 19
ResultResponse(result) == [status |-> 200, body |-> result]
\* Faulty variant of ExceptResponse: the error is answered as a client error.
ExceptResponse_400(e) == [status |-> 400, body |-> e.val]
\* Line 21
ExceptResponse(e) == [status |-> 500, body |-> e.val]
\* An exception that leaves the view: the framework answers for it.
UnhandledResponse == [status |-> 500, body |-> <<"Internal Server Error">>]

\* Line 14 with no "term" in the JSON body: request.json['term'] raises
\* KeyError before the try block is entered.
solveAPI_KeyError ==
    /\ hpc = "idle"
    /\ request' = [present |-> FALSE, term |-> <<>>]
    /\ outcome' = KeyError
    /\ response' = UnhandledResponse
    /\ hpc' = "done"
    /\ UNCHANGED stack

\* Lines 14-16: the term is falsy.
solveAPI_NoTerm ==
    /\ hpc = "idle"
    /\ request' = [present |-> TRUE, term |-> <<>>]
    /\ response' = NoTermResponse
    /\ hpc' = "done"
    /\ UNCHANGED <<stack, outcome>>

\* Lines 14-18: the term t is truthy; call solve_term(str(t)).
solveAPI_Call(t) ==
    /\ hpc = "idle"
    /\ t # <<>>
    /\ request' = [present |-> TRUE, term |-> t]
    /\ stack' = <<Frame(t)>>
    /\ hpc' = "solving"
    /\ UNCHANGED <<outcome, response>>

\* A request with an arbitrary string as its term
solveAPI_CallString ==
    /\ hpc = "idle"
    /\ \E k \in 1..MaxLen : \E t \in Strings(k) : solveAPI_Call(t)

\* A request with a well-formed term as its term
solveAPI_CallWellFormed ==
    /\ hpc = "idle"
    /\ \E k \in 1..(MaxOperands - 1) :
        \E ds \in [1..(k + 1) -> InputDigits], os \in [1..k -> InputOperators] :
            solveAPI_Call(WellFormedTerm(ds, os))

\* Lines 18-19: solve_term returned.
solveAPI_Return ==
    /\ hpc = "solving" /\ stack = <<>> /\ outcome.kind = "value"
    /\ response' = ResultResponse(outcome.val)
    /\ hpc' = "done"
    /\ UNCHANGED <<request, stack, outcome>>

\* Lines 20-21: solve_term raised.
solveAPI_Except ==
    /\ hpc = "solving" /\ stack = <<>> /\ IsRaise(outcome)
    /\ response' = ExceptResponse(outcome)
    /\ hpc' = "done"
    /\ UNCHANGED <<request, stack, outcome>>

\* ---------------------------------------------------------- specifications
Init ==
    /\ request = [present |-> FALSE, term |-> <<>>]
    /\ hpc = "idle"
    /\ stack = <<>>
    /\ outcome = NoOutcome
    /\ response = NoResponse

Next ==
    \/ solveAPI_KeyError
    \/ solveAPI_NoTerm
    \/ solveAPI_CallString
    \/ solveAPI_CallWellFormed
    \/ solveAPI_Return
    \/ solveAPI_Except
    \/ SolveStep

\* The program: requests to /solve.
Spec == Init /\ [][Next]_vars

\* solve_term called directly on any string, the empty one included.
InitSolve ==
    /\ \/ \E k \in 0..MaxLen : \E t \in Strings(k) :
            request = [present |-> TRUE, term |-> t]
       \/ \E k \in 1..(MaxOperands - 1) :
            \E ds \in [1..(k + 1) -> InputDigits],
               os \in [1..k -> InputOperators] :
                request = [present |-> TRUE, term |-> WellFormedTerm(ds, os)]
    /\ hpc = "direct"
    /\ stack = <<Frame(request.term)>>
    /\ outcome = NoOutcome
    /\ response = NoResponse

SolveSpec == InitSolve /\ [][SolveStep]_vars

\* ------------------------------------------------------------- properties
\* The term a run evaluates, and the end of its outermost call.
Term == request.term
Finished == stack = <<>> /\ outcome # NoOutcome

\* Section 3 of the specification: odd length, digits at the even indices
\* of the source, "+" or "*" at the odd ones.
WellFormed(t) ==
    /\ Len(t) % 2 = 1
    /\ \A i \in 1..Len(t) :
        IF i % 2 = 1 THEN IsDigit(t[i]) ELSE t[i] \in {"+", "*"}

RECURSIVE StrToInt(_)
\* int(s) of a string of decimal digits
StrToInt(s) ==
    IF Len(s) = 0 THEN 0
    ELSE 10 * StrToInt(SubSeq(s, 1, Len(s) - 1)) + int(s[Len(s)])

RECURSIVE Product(_, _)
\* the product of the first k operands of a well-formed term
Product(t, k) == IF k = 0 THEN 1 ELSE Product(t, k - 1) * int(t[2 * k - 1])

Operands(t) == (Len(t) + 1) \div 2

\* C1: a 3-character term with digits a and b at indices 0 and 2 returns
\* decimal(a+b) when the middle character is "+", and decimal(a*b) when it
\* is anything else.
C1_ThreeCharTerm ==
    (Finished /\ Len(Term) = 3 /\ IsDigit(Term[1]) /\ IsDigit(Term[3]))
        => outcome = Value(str(IF Term[2] = "+"
                               THEN int(Term[1]) + int(Term[3])
                               ELSE int(Term[1]) * int(Term[3])))

C1_Witness ==
    /\ Finished /\ Len(Term) = 3 /\ Term[2] = "-"
    /\ outcome = Value(<<"3", "6">>)

\* C2: a chain d0*d1*...*dn (n >= 2) whose proper prefixes all have a
\* product below 10 returns the decimal string of the exact product.
IsMulChain(t) ==
    /\ WellFormed(t) /\ Len(t) >= 5
    /\ \A i \in 1..Len(t) : i % 2 = 0 => t[i] = "*"

PrefixesBelowTen(t) == \A k \in 1..(Operands(t) - 1) : Product(t, k) < 10

C2_MulChain ==
    (Finished /\ IsMulChain(Term) /\ PrefixesBelowTen(Term))
        => outcome = Value(str(Product(Term, Operands(Term))))

C2_Witness ==
    /\ Finished /\ IsMulChain(Term) /\ PrefixesBelowTen(Term)
    /\ Len(Term) = 7
    /\ outcome = Value(<<"7", "2">>)

\* C3 as claimed: a well-formed term of length >= 5 whose first operator is
\* "+" returns decimal(a + int(solve_term(term[2:]))) whenever the remainder
\* has a value.
C3_Claim ==
    (Finished /\ WellFormed(Term) /\ Len(Term) >= 5 /\ Term[2] = "+")
        => LET r == solve_term(SubSeq(Term, 3, Len(Term)))
           IN  r.kind = "value"
                   => outcome = Value(str(int(Term[1]) + StrToInt(r.val)))

\* C4 as claimed: the two examples complete with a numeric result.
C4_Claim ==
    (Finished /\ Term \in {<<"2", "+", "3", "*", "4">>,
                           <<"9", "*", "9", "*", "9">>})
        => outcome.kind = "value"

\* A call that spliced a value of two or more digits into its next term.
AddSplice(f) == f.pc = "add_outer" /\ Len(f.r) >= 2
MulSplice(f) ==
    f.pc = "mul" /\ number(f.term) * number2(f.term) >= 10

\* C4, amended: once a value of two or more digits is spliced into the
\* term, the evaluation never produces a value again: after an addition
\* splice it raises the index error, and after a multiplication splice in
\* a well-formed term it raises the format error on the operator that
\* follows the product. "2+3*4" ends in the index error and "9*9*9" in the
\* format error on "*".
C4_SpliceRaises ==
    /\ \A i \in 1..Len(stack) :
        /\ AddSplice(stack[i]) => outcome \in {NoOutcome, IndexError}
        /\ (MulSplice(stack[i]) /\ WellFormed(Term))
               => outcome \in {NoOutcome, ValueError(stack[i].term[4])}
    /\ (Finished /\ Term = <<"2", "+", "3", "*", "4">>)
           => outcome = IndexError
    /\ (Finished /\ Term = <<"9", "*", "9", "*", "9">>)
           => outcome = ValueError("*")

C4_Witness ==
    /\ WellFormed(Term)
    /\ \E i \in 1..Len(stack) : MulSplice(stack[i])
    /\ outcome = ValueError("+")

\* C5 as claimed: a term shorter than 3 fails with the index error, and a
\* term of length >= 3 with a non-digit at index 0 or 2 with the format
\* error.
BadOperand(t) == Len(t) >= 3 /\ (~IsDigit(t[1]) \/ ~IsDigit(t[3]))

C5_Claim ==
    Finished =>
        /\ Len(Term) < 3 => outcome = IndexError
        /\ BadOperand(Term) => outcome.kind = "ValueError"

\* C5, amended: a term that is empty, or shorter than 3 with a digit at
\* index 0, fails with the index error; a term of length 1 or 2 whose first
\* character is not a digit fails with the format error; a term of length
\* >= 3 with a non-digit at index 0 or 2 fails with the format error.
C5_ErrorByCause ==
    Finished =>
        /\ Len(Term) = 0 => outcome = IndexError
        /\ (Len(Term) \in {1, 2} /\ IsDigit(Term[1])) => outcome = IndexError
        /\ (Len(Term) \in {1, 2} /\ ~IsDigit(Term[1]))
               => outcome = ValueError(Term[1])
        /\ BadOperand(Term) => outcome.kind = "ValueError"

C5_Witness ==
    /\ Finished /\ Len(Term) = 2 /\ ~IsDigit(Term[1])
    /\ outcome.kind = "ValueError"

\* C6 as claimed: a request whose term is empty or missing is answered
\* with 400 "No term provided" and solve_term is not called.
C6_Claim ==
    (hpc = "done" /\ (~request.present \/ request.term = <<>>))
        => response = [status |-> 400, body |-> <<"No term provided">>]
               /\ stack = <<>>

\* C7: a request with a non-empty term is answered with 200 and the value
\* of solve_term(term), or with 500 and the text of the error it raised,
\* and nothing is running afterwards.
C7_TwoOutcomes ==
    (hpc = "done" /\ request.present /\ request.term # <<>>)
        => /\ stack = <<>>
           /\ outcome = solve_term(request.term)
           /\ \/ outcome.kind = "value"
                   /\ response = [status |-> 200, body |-> outcome.val]
              \/ outcome.kind \in {"IndexError", "ValueError"}
                   /\ response = [status |-> 500, body |-> outcome.val]

C7_Witness ==
    /\ hpc = "done" /\ request.present /\ Len(request.term) = 3
    /\ response =
        [status |-> 500,
         body |-> <<"invalid literal for int() with base 10: '", "-", "'">>]

\* C8: a term longer than 3 whose character at index 1 is not "*" has the
\* outcome of the same term with that character replaced by "+".
C8_NotStarIsPlus ==
    (Finished /\ Len(Term) > 3 /\ Term[2] # "*")
        => outcome = solve_term([Term EXCEPT ![2] = "+"])

C8_Witness ==
    /\ Finished /\ Len(Term) = 5 /\ Term[2] = "-"
    /\ outcome = Value(<<"9">>)

\* C9: every call that is made gets a term strictly shorter than its
\* caller's, and the calls nested inside the first one never outnumber the
\* characters of the original term.
C9_CallsShrink ==
    /\ \A i \in 1..(Len(stack) - 1) :
        Len(stack[i + 1].term) < Len(stack[i].term)
    /\ Len(stack) - 1 <= Len(Term)

C9_Witness ==
    /\ Len(stack) = 3 /\ Len(Term) = 7
    /\ stack[1].pc = "add_inner"
    /\ stack[2].pc = "mul"
    /\ stack[3].pc = "entry"

\* C10: every value a call returns is the decimal string of an integer
\* between 0 and 81.
C10_ValueRange ==
    outcome.kind = "value" => \E n \in 0..81 : outcome.val = str(n)

C10_Witness ==
    /\ stack # <<>>
    /\ outcome = Value(<<"8", "1">>)

=============================================================================
